---- MODULE Spec2Model ----
\* Navigation of the three-level gallery page (universe / cluster / photo):
\* GalleryPage's state, Scene's keyboard and pointer handlers, the 600 ms warp
\* timer, the full-screen LoadingScreen overlay and ClusterView's texture
\* bookkeeping, as one state machine driven by DOM events.
EXTENDS Integers, Sequences, FiniteSets, TLC

\* ---------------------------------------------------------------- bounds

\* How many entries of GALAXY_CONFIGS the model keeps.
NumGalaxies == 2
\* Longest file listing the photo API returns for one folder.
MaxFiles == 2
\* Cap on simultaneously pending warp timers (binds only if clicks are accepted
\* while a timer is pending).
MaxPending == 2
\* Cap on the recorded run of consecutive galaxy clicks.
MaxClicks == 2

\* Longest folder segment requested from the photos route.
MaxFolderLen == 3
\* Most entries a listed directory holds.
MaxEntries == 4
\* Longest file listing one photo fetch of the fetch effect receives.
MaxListing == 9
\* Longest recorded run of mute toggles and stop timeouts.
MaxAudioEvents == 8

\* ------------------------------------------------------- program constants

MAX_PHOTOS_PER_GALAXY == 8

\* ids of GALAXY_CONFIGS, in declaration order
GALAXY_CONFIGS ==
  <<"special", "style", "travel", "cafes", "food", "climbing", "spring", "cooking">>

GalaxyIds == {GALAXY_CONFIGS[k] : k \in 1..NumGalaxies}

\* position of each entry of GALAXY_CONFIGS
GALAXY_POSITION ==
  [g \in {GALAXY_CONFIGS[k] : k \in 1..Len(GALAXY_CONFIGS)} |->
     CASE g = "special" -> <<-22, 8, -10>>
       [] g = "style" -> <<24, -10, -18>>
       [] g = "travel" -> <<2, 18, -30>>
       [] g = "cafes" -> <<-5, -16, -5>>
       [] g = "food" -> <<-18, -8, -35>>
       [] g = "climbing" -> <<14, 12, -42>>
       [] g = "spring" -> <<8, -14, -22>>
       [] g = "cooking" -> <<-30, 14, -20>>]

\* JavaScript null for string | null state; no galaxy has this id.
Null == "null"
\* null for activePhotoId; photo ids are the pairs <<galaxy id, index>>.
NullPhoto == <<>>

ViewLevel == {"universe", "cluster", "photo"}

Min(a, b) == IF a < b THEN a ELSE b

\* null for hoveredIndex; card indexes count from 0.
NoIndex == -1

\* What the pointer is on: nothing, the spiral disc of galaxy g, or card i.
NoTarget == [kind |-> "none", g |-> Null, i |-> NoIndex]
GalaxyTarget(g) == [kind |-> "galaxy", g |-> g, i |-> NoIndex]
CardTarget(i) == [kind |-> "card", g |-> Null, i |-> i]

VARIABLES
  level,          \* GalleryPage: useState<ViewLevel>('universe')
  activeGalaxyId, \* GalleryPage: useState<string | null>(null)
  activePhotoId,  \* GalleryPage: useState<string | null>(null)
  galaxies,       \* GalleryPage: galaxy id -> its photos (sequence of records)
  fetched,        \* the Promise.all of the photo fetches has resolved
  galaxyLoading,  \* GalleryPage: LoadingScreen visible
  warpActive,     \* Scene: useState(false)
  timers,         \* pending setTimeout(..., 600) callbacks, oldest first
  loadedCount,    \* ClusterView: useRef(0)
  readyCalled,    \* ClusterView: useRef(false)
  cardTexture,    \* mounted PhotoCards: index -> "loading" | "loaded" | "failed"
  hovered,        \* GalaxyParticleCluster: the galaxies whose useState(false) is true
  hoveredIndex,   \* ClusterView: useState<number | null>(null)
  pointerOn,      \* the object the event layer holds as hovered (under the pointer)
  camera,         \* CameraRig: the pose and zoom limits last given to CameraControls
  clicked,        \* history: galaxies pointer-clicked in a row, oldest first
  last,           \* history: the last event and the navigation state before it
  folder,         \* route.ts GET: the folder segment of the request
  rpc,            \* route.ts GET: "idle" | "awaiting" (await params) | "done"
  safe,           \* route.ts GET: const safe
  dir,            \* route.ts GET: const dir, relative to <cwd>/public/memories
  env,            \* history: what params and the file system answered
  response,       \* route.ts GET: the NextResponse returned
  fetches,        \* fetch effect: galaxy id -> the promise of its async function
  selectedId,     \* single-level gallery Scene: useState<number | null>(null)
  cardHovered,    \* single-level gallery: the cards whose useState(false) is true
  glast,          \* history: the last click or key of the single-level gallery
  muted,          \* GalleryPage: useState(false)
  ambient,        \* _ambientNodes and the pending stop timeouts
  alog            \* history: the mute toggles and stop timeouts so far

vars == <<level, activeGalaxyId, activePhotoId, galaxies, fetched, galaxyLoading,
          warpActive, timers, loadedCount, readyCalled, cardTexture, hovered,
          hoveredIndex, pointerOn, camera, clicked, last>>

hoverVars == <<hovered, hoveredIndex, pointerOn>>

routeVars == <<folder, rpc, safe, dir, env, response>>

fetchVars == <<fetches>>

galleryVars == <<selectedId, cardHovered, glast>>

audioVars == <<muted, ambient, alog>>

\* everything but the page's navigation variables
sideVars == <<routeVars, fetchVars, galleryVars, audioVars>>

\* everything but the route's, the fetch effect's, the single-level gallery's
notRoute == <<vars, fetchVars, galleryVars, audioVars>>
notFetch == <<vars, routeVars, galleryVars, audioVars>>
notGallery == <<vars, routeVars, fetchVars, audioVars>>
notAudio == <<vars, routeVars, fetchVars, galleryVars>>

allVars == <<vars, sideVars>>

\* ------------------------------------------------------------ derived state

\* `${cfg.id}-p${i}`, i counted from 0
PhotoId(g, i) == <<g, i>>

\* Mutant: the listing is mapped without the slice.
PhotosOf_NoSlice(g, files) ==
  [k \in 1..Len(files) |-> [id |-> <<g, k - 1>>, url |-> <<g, files[k]>>]]

\* files.slice(0, MAX_PHOTOS_PER_GALAXY).map((filename, i) => ({id, url, ...}))
\* A listing is the sequence of its filenames; the k-th filename of a sorted
\* listing is written k.
PhotosOf(g, files) ==
  [k \in 1..Min(Len(files), MAX_PHOTOS_PER_GALAXY) |->
     [id |-> PhotoId(g, k - 1), url |-> <<g, files[k]>>]]

\* galaxies.find(g => g.id === activeGalaxyId) || null, as the photos of the
\* galaxy found (every galaxy of the registry is always in `galaxies`).
HasActiveGalaxy(gid) == gid \in GalaxyIds
ActivePhotos(gal, gid) == IF HasActiveGalaxy(gid) THEN gal[gid] ELSE <<>>

\* photos.findIndex(p => p.id === id): 0-based, -1 when absent
FindIndex(photos, id) ==
  IF \E k \in 1..Len(photos) : photos[k].id = id
  THEN (CHOOSE k \in 1..Len(photos) :
          /\ photos[k].id = id
          /\ \A j \in 1..(k - 1) : photos[j].id # id) - 1
  ELSE -1

\* photos[i] with the code's 0-based index
At(photos, i) == photos[i + 1]

\* activeGalaxy?.photos.find(p => p.id === activePhotoId) || null
HasActivePhoto == FindIndex(ActivePhotos(galaxies, activeGalaxyId), activePhotoId) >= 0

Nav == [level |-> level, activeGalaxyId |-> activeGalaxyId, activePhotoId |-> activePhotoId]

\* (level === 'cluster' || level === 'photo') && activeGalaxy: ClusterView is mounted
ClusterMounted(lvl, gid) == lvl \in {"cluster", "photo"} /\ HasActiveGalaxy(gid)

\* Mutant: the overlay lets pointer events through (pointer-events: none).
OverlayCovers_Never == FALSE

\* The LoadingScreen is a fixed, inset-0, z-index 9999 element without
\* pointer-events: none; while visible every pointer event lands on it instead
\* of the canvas.
OverlayCovers == galaxyLoading

\* Mutant: the galaxies stay rendered (and clickable) at every level.
GalaxiesRendered_Always(lvl) == TRUE

\* {level === 'universe' && galaxies.map(... <GalaxyParticleCluster ...>)}
GalaxiesRendered(lvl) == lvl = "universe"

\* ------------------------------------------------- handlers (pure parts)

\* Scene onClick of a GalaxyParticleCluster, timer body: setActiveGalaxyId(galaxy.id);
\* setLevel('cluster'); setWarpActive(false). activePhotoId is not written.
CommitNav(nav, g) == [nav EXCEPT !.activeGalaxyId = g, !.level = "cluster"]

\* Mutant: leaving the cluster forgets setActiveGalaxyId(null).
EscapeNav_KeepsGalaxy(nav) ==
  IF nav.level = "photo"
  THEN [nav EXCEPT !.level = "cluster", !.activePhotoId = NullPhoto]
  ELSE IF nav.level = "cluster"
       THEN [nav EXCEPT !.level = "universe"]
       ELSE nav

\* Mutant: Escape from a photo forgets setActivePhotoId(null).
EscapeNav_KeepsPhoto(nav) ==
  IF nav.level = "photo"
  THEN [nav EXCEPT !.level = "cluster"]
  ELSE IF nav.level = "cluster"
       THEN [nav EXCEPT !.level = "universe", !.activeGalaxyId = Null]
       ELSE nav

\* Mutant: Escape lacks the cluster branch.
EscapeNav_PhotoOnly(nav) ==
  IF nav.level = "photo"
  THEN [nav EXCEPT !.level = "cluster", !.activePhotoId = NullPhoto]
  ELSE nav

\* handleKeyDown, the Escape branch
EscapeNav(nav) ==
  IF nav.level = "photo"
  THEN [nav EXCEPT !.level = "cluster", !.activePhotoId = NullPhoto]
  ELSE IF nav.level = "cluster"
       THEN [nav EXCEPT !.level = "universe", !.activeGalaxyId = Null]
       ELSE nav

\* Mutant: the arrows wrap around at the ends of the list.
ArrowNav_Wraps(nav, key, photos) ==
  IF nav.level = "photo" /\ HasActiveGalaxy(nav.activeGalaxyId)
     /\ nav.activePhotoId # NullPhoto /\ Len(photos) > 0
  THEN LET currentIndex == FindIndex(photos, nav.activePhotoId)
       IN IF key = "ArrowRight"
          THEN [nav EXCEPT !.activePhotoId =
                  At(photos, (currentIndex + 1) % Len(photos)).id]
          ELSE IF key = "ArrowLeft"
               THEN [nav EXCEPT !.activePhotoId =
                       At(photos, (currentIndex + Len(photos) - 1) % Len(photos)).id]
               ELSE nav
  ELSE nav

\* Mutant: the arrow branch lacks its level / selection guard.
ArrowNav_NoGuard(nav, key, photos) ==
  LET currentIndex == FindIndex(photos, nav.activePhotoId)
  IN IF key = "ArrowRight" /\ currentIndex < Len(photos) - 1
     THEN [nav EXCEPT !.activePhotoId = At(photos, currentIndex + 1).id]
     ELSE IF key = "ArrowLeft" /\ currentIndex > 0
          THEN [nav EXCEPT !.activePhotoId = At(photos, currentIndex - 1).id]
          ELSE nav

\* handleKeyDown, the arrow branch
ArrowNav(nav, key, photos) ==
  IF nav.level = "photo" /\ HasActiveGalaxy(nav.activeGalaxyId)
     /\ nav.activePhotoId # NullPhoto
  THEN LET currentIndex == FindIndex(photos, nav.activePhotoId)
       IN IF key = "ArrowRight" /\ currentIndex < Len(photos) - 1
          THEN [nav EXCEPT !.activePhotoId = At(photos, currentIndex + 1).id]
          ELSE IF key = "ArrowLeft" /\ currentIndex > 0
               THEN [nav EXCEPT !.activePhotoId = At(photos, currentIndex - 1).id]
               ELSE nav
  ELSE nav

\* handleKeyDown: both branches read the level of the render the listener
\* was registered in, so the arrow branch sees the state before the Escape.
KeyDownNav(nav, key, photos) ==
  IF key = "Escape" THEN EscapeNav(nav) ELSE ArrowNav(nav, key, photos)

\* Mutant: the Back button lacks the photo branch.
BackButtonNav_NoPhotoBranch(nav) ==
  [nav EXCEPT !.level = "universe", !.activeGalaxyId = Null]

\* Mutant: the Back button is rendered at every level.
BackButtonRendered_Always(lvl) == TRUE

\* {level !== 'universe' && (<button ...>)}
BackButtonRendered(lvl) == lvl # "universe"

\* GalleryPage Back button onClick
BackButtonNav(nav) ==
  IF nav.level = "photo"
  THEN [nav EXCEPT !.level = "cluster", !.activePhotoId = NullPhoto]
  ELSE [nav EXCEPT !.level = "universe", !.activeGalaxyId = Null]

\* GalleryPage Prev button: disabled when idx === 0, onClick moves if idx > 0
PrevButtonNav(nav, photos) ==
  LET idx == FindIndex(photos, nav.activePhotoId)
  IN IF idx # 0 /\ idx > 0
     THEN [nav EXCEPT !.activePhotoId = At(photos, idx - 1).id]
     ELSE nav

\* Mutant: Next stops one photo early (idx < length - 2).
NextButtonNav_StopsEarly(nav, photos) ==
  LET idx == FindIndex(photos, nav.activePhotoId)
  IN IF idx # Len(photos) - 1 /\ idx < Len(photos) - 2
     THEN [nav EXCEPT !.activePhotoId = At(photos, idx + 1).id]
     ELSE nav

\* GalleryPage Next button: disabled when idx === length - 1, onClick moves
\* if idx < length - 1
NextButtonNav(nav, photos) ==
  LET idx == FindIndex(photos, nav.activePhotoId)
  IN IF idx # Len(photos) - 1 /\ idx < Len(photos) - 1
     THEN [nav EXCEPT !.activePhotoId = At(photos, idx + 1).id]
     ELSE nav

\* Mutant: onPhotoClick forgets setActivePhotoId(photo.id).
PhotoClickNav_NoId(nav, photo) ==
  IF nav.level = "cluster" THEN [nav EXCEPT !.level = "photo"] ELSE nav

\* Mutant: PhotoCard onClick lacks the level === 'cluster' guard.
PhotoClickNav_NoGuard(nav, photo) ==
  [nav EXCEPT !.activePhotoId = photo.id, !.level = "photo"]

\* PhotoCard onClick: if (level === 'cluster') onCardClick(), and Scene's
\* onPhotoClick: setActivePhotoId(photo.id); setLevel('photo')
PhotoClickNav(nav, photo) ==
  IF nav.level = "cluster"
  THEN [nav EXCEPT !.activePhotoId = photo.id, !.level = "photo"]
  ELSE nav

\* ClusterView.handlePhotoLoaded: whether this load fires onReady
FiresReady(called, count, nPhotos) == ~called /\ count >= Min(2, nPhotos)

\* ----------------------------------------------------------------- hover

\* Mutant: a galaxy's onPointerOut leaves its hovered flag set.
GalaxyPointerOut_Keeps(h, g) == h

\* GalaxyParticleCluster onPointerOver / onPointerOut of galaxy g: each
\* galaxy has its own flag, the handlers touch no other galaxy's.
GalaxyPointerOver(h, g) == h \cup {g}
GalaxyPointerOut(h, g) == h \ {g}

\* PhotoCard onPointerOver / onPointerOut of card i: one index shared by the
\* cards of the ClusterView, written only while level === 'cluster'.
CardPointerOver(hi, i, lvl) == IF lvl = "cluster" THEN i ELSE hi
CardPointerOut(hi, i, lvl) == IF lvl = "cluster" THEN NoIndex ELSE hi

\* PhotoCard: isHovered = hoveredIndex === index && level === 'cluster'
IsHovered(hi, i, lvl) == hi = i /\ lvl = "cluster"

\* The event layer calls onPointerOut of the object the pointer was on before
\* it calls onPointerOver of the object the pointer is on now.
OutHovered(h, t) == IF t.kind = "galaxy" THEN GalaxyPointerOut(h, t.g) ELSE h
OutIndex(hi, t, lvl) == IF t.kind = "card" THEN CardPointerOut(hi, t.i, lvl) ELSE hi

\* ---------------------------------------------------------------- camera

\* Camera coordinates are kept in halves of a scene unit (the photo pose looks
\* at x - 0.5): the point (x, y, z) is written <<2x, 2y, 2z>>.
Point(x, y, z) == <<2 * x, 2 * y, 2 * z>>

\* Mutant: the photo level keeps the pose of the cluster level.
CameraPose_NoPhotoPose(cam, lvl, gid) ==
  IF lvl = "universe"
  THEN [from |-> Point(0, 5, 45), at |-> Point(0, 0, 0)]
  ELSE IF HasActiveGalaxy(gid)
       THEN LET position == GALAXY_POSITION[gid]
            IN [from |-> Point(position[1], position[2], position[3] + 20),
                at |-> Point(position[1], position[2], position[3])]
       ELSE cam

\* CameraRig's effect, the setLookAt branches: the look-from and look-at
\* points given to the controls (none is given at 'cluster' or 'photo'
\* without an active galaxy: the pose stays).
CameraPose(cam, lvl, gid) ==
  IF lvl = "universe"
  THEN [from |-> Point(0, 5, 45), at |-> Point(0, 0, 0)]
  ELSE IF lvl = "cluster" /\ HasActiveGalaxy(gid)
       THEN LET position == GALAXY_POSITION[gid]
            IN [from |-> Point(position[1], position[2], position[3] + 20),
                at |-> Point(position[1], position[2], position[3])]
       ELSE IF lvl = "photo" /\ HasActiveGalaxy(gid)
            THEN LET position == GALAXY_POSITION[gid]
                 IN [from |-> Point(position[1], position[2], position[3] + 12),
                     at |-> <<2 * position[1] - 1, 2 * position[2],
                              2 * (position[3] + 6)>>]
            ELSE cam

\* Mutant: the photo level does not let the camera nearer than 8.
CameraClamps_PhotoFar(lvl) ==
  IF lvl = "universe" THEN [minDistance |-> 15, maxDistance |-> 80]
  ELSE IF lvl = "cluster" THEN [minDistance |-> 5, maxDistance |-> 35]
       ELSE [minDistance |-> 8, maxDistance |-> 22]

\* CameraRig's effect, the zoom limits per view level
CameraClamps(lvl) ==
  IF lvl = "universe" THEN [minDistance |-> 15, maxDistance |-> 80]
  ELSE IF lvl = "cluster" THEN [minDistance |-> 5, maxDistance |-> 35]
       ELSE [minDistance |-> 3, maxDistance |-> 22]

\* CameraRig's effect as a whole
CameraEffect(cam, lvl, gid) ==
  LET pose == CameraPose([from |-> cam.from, at |-> cam.at], lvl, gid)
      clamps == CameraClamps(lvl)
  IN [from |-> pose.from, at |-> pose.at,
      minDistance |-> clamps.minDistance, maxDistance |-> clamps.maxDistance]

\* ------------------------------------------------------------- rendering

\* React's reconciliation of ClusterView and its PhotoCards (keyed by photo.id)
\* after the navigation state or the registry changed: an instance that stays
\* mounted keeps its refs, a card whose key is new starts loading its texture.
Rerender(nav2, gal2) ==
  LET was == ClusterMounted(level, activeGalaxyId)
      now == ClusterMounted(nav2.level, nav2.activeGalaxyId)
      old == ActivePhotos(galaxies, activeGalaxyId)
      new == ActivePhotos(gal2, nav2.activeGalaxyId)
  IN /\ loadedCount' = IF was /\ now THEN loadedCount ELSE 0
     /\ readyCalled' = IF was /\ now THEN readyCalled ELSE FALSE
     /\ cardTexture' =
          IF now
          THEN [k \in 1..Len(new) |->
                  IF was /\ k <= Len(old) /\ old[k].id = new[k].id
                  THEN cardTexture[k] ELSE "loading"]
          ELSE <<>>
     \* an unmounted component loses its state and its place under the pointer
     /\ hovered' = IF GalaxiesRendered(level) /\ GalaxiesRendered(nav2.level)
                   THEN hovered ELSE {}
     /\ hoveredIndex' = IF was /\ now THEN hoveredIndex ELSE NoIndex
     /\ pointerOn' =
          IF \/ pointerOn.kind = "galaxy" /\ GalaxiesRendered(level)
                /\ GalaxiesRendered(nav2.level)
             \/ pointerOn.kind = "card" /\ was /\ now /\ pointerOn.i < Len(new)
          THEN pointerOn ELSE NoTarget
     \* CameraRig's effect runs when level or activeGalaxy (a new object after
     \* setGalaxies) has changed
     /\ camera' =
          IF \/ nav2.level # level
             \/ nav2.activeGalaxyId # activeGalaxyId
             \/ HasActiveGalaxy(activeGalaxyId) /\ gal2 # galaxies
          THEN CameraEffect(camera, nav2.level, nav2.activeGalaxyId)
          ELSE camera

\* setLevel / setActiveGalaxyId / setActivePhotoId followed by the re-render
SetNav(nav2) ==
  /\ level' = nav2.level
  /\ activeGalaxyId' = nav2.activeGalaxyId
  /\ activePhotoId' = nav2.activePhotoId
  /\ Rerender(nav2, galaxies)

NoHover == [hovered |-> {}, hoveredIndex |-> NoIndex, pointerOn |-> NoTarget]

Event(op, g, i, hit) ==
  [op |-> op, g |-> g, i |-> i, hit |-> hit, pre |-> Nav, preHover |-> NoHover]

\* a hover event also records the hover state it found
HoverEvent(op, g, i) ==
  [op |-> op, g |-> g, i |-> i, hit |-> TRUE, pre |-> Nav,
   preHover |-> [hovered |-> hovered, hoveredIndex |-> hoveredIndex,
                 pointerOn |-> pointerOn]]

\* ------------------------------------------------------------------ Init

\* the page after its first render
NavInit ==
  /\ level = "universe"
  /\ activeGalaxyId = Null
  /\ activePhotoId = NullPhoto
  /\ galaxies = [g \in GalaxyIds |-> <<>>]
  /\ fetched = FALSE
  /\ galaxyLoading = FALSE
  /\ warpActive = FALSE
  /\ timers = <<>>
  /\ loadedCount = 0
  /\ readyCalled = FALSE
  /\ cardTexture = <<>>
  /\ hovered = {}
  /\ hoveredIndex = NoIndex
  /\ pointerOn = NoTarget
  /\ camera = CameraEffect([from |-> Point(0, 0, 40), at |-> Point(0, 0, 0)],
                           "universe", Null)
  /\ clicked = <<>>
  /\ last = [op |-> "init", g |-> Null, i |-> -1, hit |-> FALSE,
             pre |-> [level |-> "universe", activeGalaxyId |-> Null,
                      activePhotoId |-> NullPhoto],
             preHover |-> NoHover]

\* ----------------------------------------- route.ts: GET /api/photos/[folder]

\* A string is the sequence of its characters. UTF-16 code units of the
\* characters that occur in the requests and file names below.
CharCode ==
  [c \in {"-", ".", "/", "_", "B", "D", "G", "J", "N", "P", "S",
          "a", "b", "c", "e", "f", "g", "i", "j", "n", "o", "p", "r", "t", "x"} |->
     CASE c = "-" -> 45 [] c = "." -> 46 [] c = "/" -> 47 [] c = "_" -> 95
       [] c = "B" -> 66 [] c = "D" -> 68 [] c = "G" -> 71 [] c = "J" -> 74
       [] c = "N" -> 78 [] c = "P" -> 80 [] c = "S" -> 83
       [] c = "a" -> 97 [] c = "b" -> 98 [] c = "c" -> 99 [] c = "e" -> 101
       [] c = "f" -> 102 [] c = "g" -> 103 [] c = "i" -> 105 [] c = "j" -> 106
       [] c = "n" -> 110 [] c = "o" -> 111 [] c = "p" -> 112 [] c = "r" -> 114
       [] c = "t" -> 116 [] c = "x" -> 120]

\* the character of a code unit
CharOf(n) == CHOOSE c \in DOMAIN CharCode : CharCode[c] = n

\* Mutant: the pattern has no /i flag.
ToLower_CaseSensitive(c) == c

\* case folding of the /i flag: A-Z (65..90) match as a-z (97..122)
ToLower(c) ==
  IF CharCode[c] >= 65 /\ CharCode[c] <= 90 THEN CharOf(CharCode[c] + 32) ELSE c

\* the alternatives of IMAGE_EXTS: jpg|jpeg|png|gif|webp|heic|heif|avif|tiff|tif
IMAGE_EXTS_ALTERNATIVES ==
  {<<"j", "p", "g">>, <<"j", "p", "e", "g">>, <<"p", "n", "g">>, <<"g", "i", "f">>,
   <<"w", "e", "b", "p">>, <<"h", "e", "i", "c">>, <<"h", "e", "i", "f">>,
   <<"a", "v", "i", "f">>, <<"t", "i", "f", "f">>, <<"t", "i", "f">>}

\* IMAGE_EXTS.test(f): f ends in a dot and one of the alternatives, letters
\* compared without regard to case.
IMAGE_EXTS(f) ==
  \E ext \in IMAGE_EXTS_ALTERNATIVES :
    /\ Len(f) >= Len(ext) + 1
    /\ f[Len(f) - Len(ext)] = "."
    /\ \A k \in 1..Len(ext) : ToLower(f[Len(f) - Len(ext) + k]) = ext[k]

\* Mutant: the character class also lets the dot through.
Allowed_WithDot(c) ==
  \/ CharCode[c] >= 97 /\ CharCode[c] <= 122
  \/ CharCode[c] >= 65 /\ CharCode[c] <= 90
  \/ CharCode[c] >= 48 /\ CharCode[c] <= 57
  \/ c \in {"_", "-", "."}

\* the character class [a-zA-Z0-9_\-]
Allowed(c) ==
  \/ CharCode[c] >= 97 /\ CharCode[c] <= 122
  \/ CharCode[c] >= 65 /\ CharCode[c] <= 90
  \/ CharCode[c] >= 48 /\ CharCode[c] <= 57
  \/ c \in {"_", "-"}

\* folder.replace(/[^a-zA-Z0-9_\-]/g, '')
Sanitize(f) == SelectSeq(f, Allowed)

\* The segments of a relative path: the runs between its "/" characters.
RECURSIVE Segments(_, _)
Segments(str, cur) ==
  IF str = <<>> THEN <<cur>>
  ELSE IF Head(str) = "/" THEN <<cur>> \o Segments(Tail(str), <<>>)
       ELSE Segments(Tail(str), Append(cur, Head(str)))

\* path.join(process.cwd(), 'public', 'memories', rel), written relative to
\* <cwd>/public/memories: `up` levels above it, then down the segments
\* `down`. Normalisation skips "" and ".", and ".." drops the last segment
\* or, when none is left, climbs one level.
RECURSIVE Normalize(_, _)
Normalize(segs, acc) ==
  IF segs = <<>> THEN acc
  ELSE LET seg == Head(segs)
       IN IF seg = <<>> \/ seg = <<".">>
          THEN Normalize(Tail(segs), acc)
          ELSE IF seg = <<".", ".">>
               THEN IF acc.down # <<>>
                    THEN Normalize(Tail(segs),
                           [acc EXCEPT !.down = SubSeq(acc.down, 1, Len(acc.down) - 1)])
                    ELSE Normalize(Tail(segs), [acc EXCEPT !.up = acc.up + 1])
               ELSE Normalize(Tail(segs), [acc EXCEPT !.down = Append(acc.down, seg)])

MemoriesDir == [up |-> 0, down |-> <<>>]
PathJoin(rel) == Normalize(Segments(rel, <<>>), MemoriesDir)

\* String order of Array.prototype.sort(): by code units, a proper prefix first.
LexLess(a, b) ==
  \E k \in 1..(Len(a) + 1) :
    /\ \A j \in 1..(k - 1) : j <= Len(b) /\ a[j] = b[j]
    /\ \/ k = Len(a) + 1 /\ Len(b) >= k
       \/ k <= Len(a) /\ k <= Len(b) /\ CharCode[a[k]] < CharCode[b[k]]

\* names.sort() of an array with the elements `names` (no two alike)
RECURSIVE Sort(_)
Sort(names) ==
  IF names = {} THEN <<>>
  ELSE LET least == CHOOSE x \in names : \A y \in names : x = y \/ LexLess(x, y)
       IN <<least>> \o Sort(names \ {least})

\* fs.readdirSync(dir).filter(f => IMAGE_EXTS.test(f)).sort()
Files(names) == Sort({f \in names : IMAGE_EXTS(f)})

\* NextResponse.json(body): status 200
Json(body) == [status |-> 200, body |-> body]

\* Mutant: the catch block answers with a server error.
CatchResponse_ServerError == [status |-> 500, body |-> <<>>]

\* catch { return NextResponse.json([]); }
CatchResponse == Json(<<>>)

NoResponse == [status |-> 0, body |-> <<>>]
NoEnv == [params |-> "pending", exists |-> FALSE, read |-> "none", names |-> {}]

\* requests: every folder segment of up to MaxFolderLen of these characters
FolderChars == {"a", ".", "/", "_", "-"}
Folders == UNION {[1..n -> FolderChars] : n \in 0..MaxFolderLen}

\* directory contents: up to MaxEntries of these names
FileNames ==
  {<<"b", ".", "p", "n", "g">>, <<"a", ".", "J", "P", "G">>,
   <<".", "D", "S", "_", "S", "t", "o", "r", "e">>, <<"c", ".", "t", "x", "t">>,
   <<"B", ".", "P", "N", "G">>, <<"j", "p", "g">>, <<"a", ".", "t", "i", "f">>}
DirListings == {names \in SUBSET FileNames : Cardinality(names) <= MaxEntries}

\* no request is being served
RouteIdle ==
  /\ folder = <<>>
  /\ rpc = "idle"
  /\ safe = <<>>
  /\ dir = MemoriesDir
  /\ env = NoEnv
  /\ response = NoResponse

\* GET has been called with some folder and waits in `await params`
RouteCalled ==
  /\ folder \in Folders
  /\ rpc = "awaiting"
  /\ safe = <<>>
  /\ dir = MemoriesDir
  /\ env = NoEnv
  /\ response = NoResponse

\* `await params` rejects: the catch block answers.
GET_ParamsRejected ==
  /\ rpc = "awaiting"
  /\ env' = [env EXCEPT !.params = "rejected"]
  /\ response' = CatchResponse
  /\ rpc' = "done"
  /\ UNCHANGED <<folder, safe, dir, notRoute>>

\* `await params` resolves and the handler runs to its return: sanitise, join,
\* existsSync (the directory is missing or there), readdirSync (throws, or
\* yields the names of the directory), filter, sort.
GET_Resumed ==
  /\ rpc = "awaiting"
  /\ safe' = Sanitize(folder)
  /\ dir' = PathJoin(Sanitize(folder))
  /\ \/ /\ env' = [env EXCEPT !.params = "resolved"]
        /\ response' = Json(<<>>)
     \/ /\ env' = [env EXCEPT !.params = "resolved", !.exists = TRUE, !.read = "throws"]
        /\ response' = CatchResponse
     \/ \E names \in DirListings :
          /\ env' = [params |-> "resolved", exists |-> TRUE, read |-> "ok",
                     names |-> names]
          /\ response' = Json(Files(names))
  /\ rpc' = "done"
  /\ UNCHANGED <<folder, notRoute>>

\* ------------------------------------------- the photo fetch effect, in steps

\* What one request can bring: a listing of 0..MaxListing filenames, or a
\* failure (network error, unparsable or non-array body).
FetchListings == {[k \in 1..n |-> k] : n \in 0..MaxListing}
FetchResponses == {[ok |-> TRUE, files |-> f] : f \in FetchListings}
                    \cup {[ok |-> FALSE, files |-> <<>>]}

\* the promise of a galaxy's async function while its request is unanswered
FetchPending == [state |-> "pending", ok |-> FALSE, files |-> <<>>, photos |-> <<>>]

\* Mutant: the async function has no catch, a failure rejects its promise.
FetchFulfilled_Rethrows(g, resp) ==
  [state |-> IF resp.ok THEN "fulfilled" ELSE "rejected", ok |-> resp.ok,
   files |-> resp.files,
   photos |-> IF resp.ok THEN PhotosOf(g, resp.files) ELSE <<>>]

\* The async function returns: { ...cfg, photos } from the try block, or
\* { ...cfg, photos: [] } from the catch block.
FetchFulfilled(g, resp) ==
  [state |-> "fulfilled", ok |-> resp.ok, files |-> resp.files,
   photos |-> IF resp.ok THEN PhotosOf(g, resp.files) ELSE <<>>]

\* Mutant: the results are applied as soon as one promise is fulfilled.
AllFulfilled_Any(f) == \E g \in GalaxyIds : f[g].state = "fulfilled"

\* Promise.all(...) is fulfilled when every promise is
AllFulfilled(f) == \A g \in GalaxyIds : f[g].state = "fulfilled"

\* the effect has started one request per galaxy; none is answered
FetchIdle == fetches = [g \in GalaxyIds |-> FetchPending]

\* The request of galaxy g is answered and its async function returns.
FetchSettles(g) ==
  /\ fetches[g].state = "pending"
  /\ \E resp \in FetchResponses :
       fetches' = [fetches EXCEPT ![g] = FetchFulfilled(g, resp)]
  /\ UNCHANGED notFetch

\* Promise.all(...).then(setGalaxies), and the re-render
PromiseAllThen ==
  /\ ~fetched
  /\ AllFulfilled(fetches)
  /\ LET gal2 == [g \in GalaxyIds |-> fetches[g].photos]
     IN /\ galaxies' = gal2
        /\ Rerender(Nav, gal2)
  /\ fetched' = TRUE
  /\ last' = Event("fetch", Null, -1, TRUE)
  /\ UNCHANGED <<level, activeGalaxyId, activePhotoId, galaxyLoading, warpActive,
                 timers, clicked>>
  /\ UNCHANGED sideVars

FetchNext ==
  \/ \E g \in GalaxyIds : FetchSettles(g)
  \/ PromiseAllThen

\* ------------------------------- the single-level gallery (earlier page)

\* Array.from({ length: 8 }): the cards have the ids 0..7
NumCards == 8
CardIds == 0..(NumCards - 1)
\* null for selectedId
NoCard == -1

\* Mutant: a click on another card moves the selection to it.
CardClickSelect_Switches(sel, id) == IF sel = id THEN NoCard ELSE id

\* Scene's onCardClick of card id
CardClickSelect(sel, id) ==
  IF sel = id THEN NoCard
  ELSE IF sel = NoCard THEN id
       ELSE sel

\* handleKeyDown of the single-level gallery
GalleryKeyNav(sel, key) == IF key = "Escape" THEN NoCard ELSE sel

\* PhotoCard props: isSelected, isOtherSelected
IsSelected(sel, id) == sel = id
IsOtherSelected(sel, id) == sel # NoCard /\ sel # id

GalleryInit ==
  /\ selectedId = NoCard
  /\ cardHovered = {}
  /\ glast = [op |-> "init", id |-> NoCard, pre |-> NoCard]

\* A click on card id: PhotoCard onClick, then Scene's onCardClick.
OnCardClick(id) ==
  /\ selectedId' = CardClickSelect(selectedId, id)
  /\ glast' = [op |-> "click", id |-> id, pre |-> selectedId]
  /\ UNCHANGED <<cardHovered, notGallery>>

\* window keydown
GalleryKeyDown(key) ==
  /\ selectedId' = GalleryKeyNav(selectedId, key)
  /\ glast' = [op |-> key, id |-> NoCard, pre |-> selectedId]
  /\ UNCHANGED <<cardHovered, notGallery>>

\* The pointer comes onto card id (onPointerOut of the card it was on first).
CardPointerEnter(id) ==
  /\ cardHovered # {id}
  /\ cardHovered' = {id}
  /\ UNCHANGED <<selectedId, glast, notGallery>>

\* The pointer leaves the card it was on: onPointerOut.
CardPointerExit ==
  /\ cardHovered # {}
  /\ cardHovered' = {}
  /\ UNCHANGED <<selectedId, glast, notGallery>>

GalleryKeys == {"Escape", "Enter"}

GalleryNext ==
  \/ \E id \in CardIds : OnCardClick(id)
  \/ \E key \in GalleryKeys : GalleryKeyDown(key)
  \/ \E id \in CardIds : CardPointerEnter(id)
  \/ CardPointerExit

\* ---------------------------------------------------------- ambient audio

\* The ambient drone: `nodes` is _ambientNodes, "null", or the node set with
\* its master gain ramping up ("playing") or sent to 0 by stopAmbient
\* ("fading", oscillators still started); `timers` counts the pending
\* setTimeout(..., 2000) callbacks of stopAmbient.
NoAmbient == [nodes |-> "null", timers |-> 0]

\* startAmbient(): if (!ctx || _ambientNodes) return; otherwise the
\* oscillators are created and started.
StartAmbient(a) == IF a.nodes # "null" THEN a ELSE [a EXCEPT !.nodes = "playing"]

\* stopAmbient(): if (!_ambientNodes) return; the master gain is sent to 0
\* and a timeout is set.
StopAmbient(a) ==
  IF a.nodes = "null" THEN a
  ELSE [nodes |-> "fading", timers |-> a.timers + 1]

\* The timeout's callback: the oscillators of whatever _ambientNodes holds
\* now are stopped and _ambientNodes = null.
StopTimeout(a) == [nodes |-> "null", timers |-> a.timers - 1]

\* The muted effect after a render with a new `muted`: the cleanup of the
\* effect before (stopAmbient), then startAmbient or stopAmbient.
MutedEffect(a, m) ==
  IF ~m THEN StartAmbient(StopAmbient(a)) ELSE StopAmbient(StopAmbient(a))

\* after the first render: the effect has run with muted = false
AudioInit ==
  /\ muted = FALSE
  /\ ambient = StartAmbient(NoAmbient)
  /\ alog = <<>>

\* A click on the sound button: setMuted(m => !m), re-render, effect.
ToggleMute ==
  /\ Len(alog) < MaxAudioEvents
  /\ muted' = ~muted
  /\ ambient' = MutedEffect(ambient, ~muted)
  /\ alog' = Append(alog, "toggle")
  /\ UNCHANGED notAudio

\* One of the pending 2 s timeouts of stopAmbient fires.
StopTimerFires ==
  /\ Len(alog) < MaxAudioEvents
  /\ ambient.timers > 0
  /\ ambient' = StopTimeout(ambient)
  /\ alog' = Append(alog, "timeout")
  /\ UNCHANGED <<muted, notAudio>>

AudioNext == ToggleMute \/ StopTimerFires

\* the page after its first render: the fetch effect has started its requests,
\* no request to the route is being served
Init == NavInit /\ RouteIdle /\ FetchIdle /\ GalleryInit /\ AudioInit

\* the sound button and the ambient drone
AudioSpec == Init /\ [][AudioNext]_allVars

FetchSpec == Init /\ [][FetchNext]_allVars

\* the single-level gallery page
GallerySpec == Init /\ [][GalleryNext]_allVars

\* a request to the route arrives
RouteInit == NavInit /\ RouteCalled /\ FetchIdle /\ GalleryInit /\ AudioInit

RouteNext == GET_ParamsRejected \/ GET_Resumed

RouteSpec == RouteInit /\ [][RouteNext]_allVars

\* ---------------------------------------------------------------- actions

\* The photo fetch effect: Promise.all(...).then(setGalaxies). Each folder's
\* request yields a listing of 0..MaxFiles filenames or fails (photos: []).
Listings == {[k \in 1..n |-> k] : n \in 0..MaxFiles}
Responses == {[ok |-> TRUE, files |-> f] : f \in Listings}
               \cup {[ok |-> FALSE, files |-> <<>>]}

FetchResolved ==
  /\ ~fetched
  /\ \E resp \in [GalaxyIds -> Responses] :
       LET gal2 == [g \in GalaxyIds |->
                      IF resp[g].ok THEN PhotosOf(g, resp[g].files) ELSE <<>>]
       IN /\ galaxies' = gal2
          /\ Rerender(Nav, gal2)
  /\ fetched' = TRUE
  /\ last' = Event("fetch", Null, -1, TRUE)
  /\ UNCHANGED <<level, activeGalaxyId, activePhotoId, galaxyLoading, warpActive,
                 timers, clicked>>
  /\ UNCHANGED sideVars

\* Mutant: the click commits the transition at once, without the timer.
GalaxyClick_Immediate(g) ==
  /\ GalaxiesRendered(level)
  /\ ~OverlayCovers
  /\ clicked' = <<g>>
  /\ galaxyLoading' = TRUE
  /\ SetNav(CommitNav(Nav, g))
  /\ last' = Event("galaxyClick", g, -1, TRUE)
  /\ UNCHANGED <<galaxies, fetched, warpActive, timers>>
  /\ UNCHANGED sideVars

\* A pointer click where galaxy g is drawn (galaxies are rendered only at
\* level 'universe'). Under the LoadingScreen the click never reaches the
\* canvas; otherwise: onGalaxyEnter(); setWarpActive(true); setTimeout(.., 600).
\* `clicked` keeps the galaxy clicks made since a warp was started with no
\* timer pending, as long as no other input came in between (the first
\* MaxClicks of them).
GalaxyClick(g) ==
  /\ GalaxiesRendered(level)
  /\ OverlayCovers \/ Len(timers) < MaxPending
  /\ clicked' = IF timers = <<>> THEN <<g>>
                ELSE IF clicked # <<>> /\ Len(clicked) < MaxClicks
                     THEN Append(clicked, g)
                     ELSE clicked
  /\ IF OverlayCovers
     THEN /\ last' = Event("galaxyClick", g, -1, FALSE)
          /\ UNCHANGED <<galaxyLoading, warpActive, timers>>
     ELSE /\ galaxyLoading' = TRUE
          /\ warpActive' = TRUE
          /\ timers' = Append(timers, g)
          /\ last' = Event("galaxyClick", g, -1, TRUE)
  /\ UNCHANGED <<level, activeGalaxyId, activePhotoId, galaxies, fetched,
                 loadedCount, readyCalled, cardTexture, hoverVars, camera>>
  /\ UNCHANGED sideVars

\* The oldest pending 600 ms timer fires (equal delays fire in creation order).
WarpTimerFires ==
  /\ timers # <<>>
  /\ SetNav(CommitNav(Nav, Head(timers)))
  /\ warpActive' = FALSE
  /\ timers' = Tail(timers)
  /\ last' = Event("commit", Head(timers), -1, TRUE)
  /\ UNCHANGED <<galaxies, fetched, galaxyLoading, clicked>>
  /\ UNCHANGED sideVars

\* Mutant: a key press clears the pending warp timer.
KeyDown_CancelsWarp(key) ==
  /\ SetNav(KeyDownNav(Nav, key, ActivePhotos(galaxies, activeGalaxyId)))
  /\ clicked' = <<>>
  /\ timers' = <<>>
  /\ warpActive' = FALSE
  /\ last' = Event(key, Null, -1, TRUE)
  /\ UNCHANGED <<galaxies, fetched, galaxyLoading>>
  /\ UNCHANGED sideVars

\* window keydown: not a pointer event, so the overlay does not stop it.
KeyDown(key) ==
  /\ SetNav(KeyDownNav(Nav, key, ActivePhotos(galaxies, activeGalaxyId)))
  /\ clicked' = <<>>
  /\ last' = Event(key, Null, -1, TRUE)
  /\ UNCHANGED <<galaxies, fetched, galaxyLoading, warpActive, timers>>
  /\ UNCHANGED sideVars

\* The Back button exists while level !== 'universe'. A button can be
\* activated from the keyboard (focus + Enter), so the overlay does not stop it.
BackButton ==
  /\ BackButtonRendered(level)
  /\ SetNav(BackButtonNav(Nav))
  /\ clicked' = <<>>
  /\ last' = Event("backButton", Null, -1, TRUE)
  /\ UNCHANGED <<galaxies, fetched, galaxyLoading, warpActive, timers>>
  /\ UNCHANGED sideVars

\* Prev / Next exist while level === 'photo' && activePhoto && activeGalaxy.
PrevButton ==
  /\ level = "photo" /\ HasActivePhoto /\ HasActiveGalaxy(activeGalaxyId)
  /\ SetNav(PrevButtonNav(Nav, ActivePhotos(galaxies, activeGalaxyId)))
  /\ clicked' = <<>>
  /\ last' = Event("prevButton", Null, -1, TRUE)
  /\ UNCHANGED <<galaxies, fetched, galaxyLoading, warpActive, timers>>
  /\ UNCHANGED sideVars

NextButton ==
  /\ level = "photo" /\ HasActivePhoto /\ HasActiveGalaxy(activeGalaxyId)
  /\ SetNav(NextButtonNav(Nav, ActivePhotos(galaxies, activeGalaxyId)))
  /\ clicked' = <<>>
  /\ last' = Event("nextButton", Null, -1, TRUE)
  /\ UNCHANGED <<galaxies, fetched, galaxyLoading, warpActive, timers>>
  /\ UNCHANGED sideVars

\* A pointer click where card i (0-based) of the mounted ClusterView is drawn.
PhotoCardClick(i) ==
  /\ ClusterMounted(level, activeGalaxyId)
  /\ i \in 0..(Len(ActivePhotos(galaxies, activeGalaxyId)) - 1)
  /\ clicked' = <<>>
  /\ IF OverlayCovers
     THEN /\ last' = Event("photoClick", Null, i, FALSE)
          /\ UNCHANGED <<level, activeGalaxyId, activePhotoId, loadedCount,
                         readyCalled, cardTexture, hoverVars, camera>>
     ELSE /\ SetNav(PhotoClickNav(Nav, At(ActivePhotos(galaxies, activeGalaxyId), i)))
          /\ last' = Event("photoClick", Null, i, TRUE)
  /\ UNCHANGED <<galaxies, fetched, galaxyLoading, warpActive, timers>>
  /\ UNCHANGED sideVars

\* useAsyncTexture's load callback of mounted card i, then PhotoCard's effect
\* (notifiedLoad) and ClusterView.handlePhotoLoaded.
TextureLoaded(i) ==
  /\ ClusterMounted(level, activeGalaxyId)
  /\ i + 1 \in DOMAIN cardTexture
  /\ cardTexture[i + 1] = "loading"
  /\ cardTexture' = [cardTexture EXCEPT ![i + 1] = "loaded"]
  /\ loadedCount' = loadedCount + 1
  /\ IF FiresReady(readyCalled, loadedCount + 1,
                   Len(ActivePhotos(galaxies, activeGalaxyId)))
     THEN readyCalled' = TRUE /\ galaxyLoading' = FALSE
     ELSE UNCHANGED <<readyCalled, galaxyLoading>>
  /\ last' = Event("textureLoaded", Null, i, TRUE)
  /\ UNCHANGED <<level, activeGalaxyId, activePhotoId, galaxies, fetched,
                 warpActive, timers, hoverVars, camera, clicked>>
  /\ UNCHANGED sideVars

\* Mutant: a failed texture sends the page one level back.
TextureFailed_GoesBack(i) ==
  /\ ClusterMounted(level, activeGalaxyId)
  /\ i + 1 \in DOMAIN cardTexture
  /\ cardTexture[i + 1] = "loading"
  /\ SetNav(EscapeNav(Nav))
  /\ last' = Event("textureFailed", Null, i, TRUE)
  /\ UNCHANGED <<galaxies, fetched, galaxyLoading, warpActive, timers, clicked>>
  /\ UNCHANGED sideVars

\* useAsyncTexture's error callback of mounted card i: setError(true)
TextureFailed(i) ==
  /\ ClusterMounted(level, activeGalaxyId)
  /\ i + 1 \in DOMAIN cardTexture
  /\ cardTexture[i + 1] = "loading"
  /\ cardTexture' = [cardTexture EXCEPT ![i + 1] = "failed"]
  /\ last' = Event("textureFailed", Null, i, TRUE)
  /\ UNCHANGED <<level, activeGalaxyId, activePhotoId, galaxies, fetched,
                 galaxyLoading, warpActive, timers, loadedCount, readyCalled,
                 hoverVars, camera, clicked>>
  /\ UNCHANGED sideVars

\* The pointer comes to rest on the spiral disc of galaxy g (drawn only at
\* level 'universe'; under the LoadingScreen the canvas gets no pointer
\* event): onPointerOut of the object it was on, then onPointerOver of g.
PointerOverGalaxy(g) ==
  /\ GalaxiesRendered(level)
  /\ ~OverlayCovers
  /\ pointerOn # GalaxyTarget(g)
  /\ hovered' = GalaxyPointerOver(OutHovered(hovered, pointerOn), g)
  /\ hoveredIndex' = OutIndex(hoveredIndex, pointerOn, level)
  /\ pointerOn' = GalaxyTarget(g)
  /\ last' = HoverEvent("pointerOver", g, NoIndex)
  /\ UNCHANGED <<level, activeGalaxyId, activePhotoId, galaxies, fetched,
                 galaxyLoading, warpActive, timers, loadedCount, readyCalled,
                 cardTexture, camera, clicked>>
  /\ UNCHANGED sideVars

\* The pointer comes to rest on card i of the mounted ClusterView:
\* onPointerOut of the object it was on, then onPointerOver of card i.
PointerOverCard(i) ==
  /\ ClusterMounted(level, activeGalaxyId)
  /\ i \in 0..(Len(ActivePhotos(galaxies, activeGalaxyId)) - 1)
  /\ ~OverlayCovers
  /\ pointerOn # CardTarget(i)
  /\ hovered' = OutHovered(hovered, pointerOn)
  /\ hoveredIndex' = CardPointerOver(OutIndex(hoveredIndex, pointerOn, level), i, level)
  /\ pointerOn' = CardTarget(i)
  /\ last' = HoverEvent("pointerOver", Null, i)
  /\ UNCHANGED <<level, activeGalaxyId, activePhotoId, galaxies, fetched,
                 galaxyLoading, warpActive, timers, loadedCount, readyCalled,
                 cardTexture, camera, clicked>>
  /\ UNCHANGED sideVars

\* The pointer leaves the object it was on for empty space, or leaves the
\* canvas (also for the LoadingScreen that came up over it): onPointerOut.
PointerLeave ==
  /\ pointerOn # NoTarget
  /\ hovered' = OutHovered(hovered, pointerOn)
  /\ hoveredIndex' = OutIndex(hoveredIndex, pointerOn, level)
  /\ pointerOn' = NoTarget
  /\ last' = HoverEvent("pointerOut", pointerOn.g, pointerOn.i)
  /\ UNCHANGED <<level, activeGalaxyId, activePhotoId, galaxies, fetched,
                 galaxyLoading, warpActive, timers, loadedCount, readyCalled,
                 cardTexture, camera, clicked>>
  /\ UNCHANGED sideVars

Keys == {"Escape", "ArrowRight", "ArrowLeft"}
CardIndexes == 0..(Min(MaxFiles, MAX_PHOTOS_PER_GALAXY) - 1)

Next ==
  \/ FetchResolved
  \/ \E g \in GalaxyIds : GalaxyClick(g)
  \/ WarpTimerFires
  \/ \E key \in Keys : KeyDown(key)
  \/ BackButton
  \/ PrevButton
  \/ NextButton
  \/ \E i \in CardIndexes : PhotoCardClick(i)
  \/ \E i \in CardIndexes : TextureLoaded(i)
  \/ \E i \in CardIndexes : TextureFailed(i)
  \/ \E g \in GalaxyIds : PointerOverGalaxy(g)
  \/ \E i \in CardIndexes : PointerOverCard(i)
  \/ PointerLeave

Spec == Init /\ [][Next]_allVars

\* What the runtime guarantees: a timer that was set fires, the fetches
\* settle, and a texture that is loading loads or fails. Nothing is assumed
\* about the user.
TextureSettles == \E i \in CardIndexes : TextureLoaded(i) \/ TextureFailed(i)

LiveSpec ==
  /\ Init /\ [][Next]_allVars
  /\ WF_allVars(WarpTimerFires)
  /\ WF_allVars(FetchResolved)
  /\ WF_allVars(TextureSettles)

TypeOK ==
  /\ level \in ViewLevel
  /\ activeGalaxyId \in GalaxyIds \cup {Null}
  /\ fetched \in BOOLEAN /\ galaxyLoading \in BOOLEAN /\ warpActive \in BOOLEAN
  /\ \A k \in 1..Len(timers) : timers[k] \in GalaxyIds
  /\ loadedCount \in Nat
  /\ readyCalled \in BOOLEAN

\* ------------------------------------------------------ navigation claims

PhotoIdsOf(photos) == {photos[k].id : k \in 1..Len(photos)}

\* C1: in every reachable state a selected photo implies a selected galaxy:
\* activePhotoId != null => activeGalaxyId != null.
C1_PhotoImpliesGalaxy == activePhotoId # NullPhoto => activeGalaxyId # Null

\* A photo is selected (by a card click) inside a galaxy.
C1_Witness ==
  /\ activePhotoId # NullPhoto /\ activeGalaxyId # Null
  /\ last.op = "photoClick" /\ last.hit

\* C2: level is 'universe' exactly when activeGalaxyId is null, and a non-null
\* activeGalaxyId names a galaxy of the registry.
C2_LevelMatchesGalaxy ==
  /\ (level = "universe") <=> (activeGalaxyId = Null)
  /\ activeGalaxyId # Null => activeGalaxyId \in DOMAIN galaxies

\* The universe has been reached again by going back from a cluster.
C2_Witness ==
  /\ level = "universe" /\ last.op \in {"Escape", "backButton"}
  /\ last.pre.level = "cluster"

\* C3: at level 'photo' activePhotoId is non-null and is the id of a photo in
\* the active galaxy's current photos (findIndex never yields -1 there).
C3_PhotoBelongsToGalaxy ==
  level = "photo" =>
    /\ activePhotoId # NullPhoto
    /\ activePhotoId \in PhotoIdsOf(ActivePhotos(galaxies, activeGalaxyId))
    /\ FindIndex(ActivePhotos(galaxies, activeGalaxyId), activePhotoId) >= 0

\* An arrow key has moved the selection to another photo.
C3_Witness ==
  /\ level = "photo" /\ last.op \in {"ArrowRight", "ArrowLeft"}
  /\ last.pre.activePhotoId # activePhotoId

\* C4: right after a warp timer fires for galaxy c the navigation state is
\* {cluster, c, null}, whatever happened between the click and the commit.
C4_CommitResult ==
  last.op = "commit" =>
    Nav = [level |-> "cluster", activeGalaxyId |-> last.g,
           activePhotoId |-> NullPhoto]

\* A commit that was preceded by another click on a galaxy during the warp.
C4_Witness == last.op = "commit" /\ Len(clicked) = 2 /\ clicked[1] # clicked[2]

\* C5: a galaxy click reaches its handler only at level 'universe', and a
\* warp timer's commit is applied only to a state whose level is 'universe'.
C5_EnterOnlyFromUniverse ==
  /\ (last.op = "galaxyClick" /\ last.hit) => last.pre.level = "universe"
  /\ last.op = "commit" => last.pre.level = "universe"

\* A commit has been applied, from the universe, for a galaxy that has photos.
C5_Witness ==
  /\ last.op = "commit" /\ last.pre.level = "universe" /\ fetched
  /\ Len(galaxies[last.g]) > 0

\* C6: a galaxy click leaves level, activeGalaxyId and activePhotoId as they
\* were (it raises warpActive and the overlay), and while a timer is pending
\* no event other than a timer firing changes them.
C6_NoCommitBeforeTimer ==
  /\ last.op = "galaxyClick" => Nav = last.pre
  /\ (last.op = "galaxyClick" /\ last.hit) =>
       (warpActive /\ galaxyLoading /\ timers # <<>>)
  /\ (timers # <<>> /\ last.op # "commit") => Nav = last.pre

\* A key was pressed while the warp timer was pending.
C6_Witness == timers # <<>> /\ last.op \in {"Escape", "ArrowRight", "ArrowLeft"}

\* C7 as stated: galaxy a clicked, then galaxy b clicked before the first
\* commit and nothing else: once the commits are through, b is the active galaxy.
C7_Original ==
  (last.op = "commit" /\ timers = <<>> /\ Len(clicked) = 2) =>
    (level = "cluster" /\ activeGalaxyId = clicked[2])

\* C7 amended: a click on another galaxy made before the first commit lands on
\* the loading overlay and schedules nothing; exactly one commit takes effect
\* and the galaxy clicked first is the active one.
C7_FirstClickWins ==
  (last.op = "commit" /\ Len(clicked) >= 2) =>
    /\ timers = <<>>
    /\ last.pre.level = "universe"
    /\ level = "cluster"
    /\ activeGalaxyId = clicked[1]

\* Two different galaxies were clicked in a row and the commit is through.
C7_Witness ==
  /\ last.op = "commit" /\ Len(clicked) >= 2 /\ clicked[1] # clicked[2]
  /\ activeGalaxyId = clicked[1]

C9_SelectPhoto ==
  last.op = "photoClick" =>
    IF last.hit /\ last.pre.level = "cluster"
    THEN /\ Nav = [level |-> "photo",
                   activeGalaxyId |-> last.pre.activeGalaxyId,
                   activePhotoId |-> PhotoId(last.pre.activeGalaxyId, last.i)]
         /\ activePhotoId \in
              PhotoIdsOf(ActivePhotos(galaxies, last.pre.activeGalaxyId))
    ELSE Nav = last.pre

\* A card was clicked at level 'photo' (rejected) in a galaxy of two photos.
C9_Witness ==
  /\ last.op = "photoClick" /\ last.hit /\ last.pre.level = "photo"
  /\ PhotoId(activeGalaxyId, last.i) # activePhotoId

AtLast(nav) ==
  LET photos == ActivePhotos(galaxies, nav.activeGalaxyId)
  IN nav.level = "photo" /\ Len(photos) > 0
     /\ FindIndex(photos, nav.activePhotoId) = Len(photos) - 1

AtFirst(nav) ==
  LET photos == ActivePhotos(galaxies, nav.activeGalaxyId)
  IN nav.level = "photo" /\ Len(photos) > 0
     /\ FindIndex(photos, nav.activePhotoId) = 0

\* C10: ArrowRight / Next at the last photo and ArrowLeft / Prev at the first
\* photo leave the navigation state unchanged (no wrap to the other end).
C10_ClampedAtEnds ==
  /\ (last.op \in {"ArrowRight", "nextButton"} /\ AtLast(last.pre)) => Nav = last.pre
  /\ (last.op \in {"ArrowLeft", "prevButton"} /\ AtFirst(last.pre)) => Nav = last.pre

\* ArrowRight was pressed at the last of at least two photos.
C10_Witness ==
  /\ last.op = "ArrowRight" /\ AtLast(last.pre)
  /\ Len(ActivePhotos(galaxies, activeGalaxyId)) >= 2

\* 0-based index of the selected photo before the last event
PreIndex == FindIndex(ActivePhotos(galaxies, last.pre.activeGalaxyId),
                      last.pre.activePhotoId)
PreCount == Len(ActivePhotos(galaxies, last.pre.activeGalaxyId))

\* C11: at level 'photo' with the selection at index i of n photos, ArrowRight /
\* Next with i < n-1 selects the photo with index i+1 and ArrowLeft / Prev with
\* i > 0 the photo with index i-1; level and activeGalaxyId stay.
C11_AdjacentPhoto ==
  /\ (last.op \in {"ArrowRight", "nextButton"} /\ last.pre.level = "photo"
      /\ PreIndex < PreCount - 1) =>
       Nav = [last.pre EXCEPT
                !.activePhotoId = PhotoId(last.pre.activeGalaxyId, PreIndex + 1)]
  /\ (last.op \in {"ArrowLeft", "prevButton"} /\ last.pre.level = "photo"
      /\ PreIndex > 0) =>
       Nav = [last.pre EXCEPT
                !.activePhotoId = PhotoId(last.pre.activeGalaxyId, PreIndex - 1)]

\* Next has moved the selection from the first photo to the second.
C11_Witness ==
  /\ last.op = "nextButton" /\ last.pre.level = "photo" /\ PreIndex = 0
  /\ activePhotoId = PhotoId(activeGalaxyId, 1)

\* C12: Escape or the Back button at level 'photo' gives level 'cluster' with
\* activePhotoId null and the same galaxy; at level 'cluster' it gives level
\* 'universe' with activeGalaxyId null.
C12_Back ==
  last.op \in {"Escape", "backButton"} =>
    /\ last.pre.level = "photo" =>
         Nav = [level |-> "cluster",
                activeGalaxyId |-> last.pre.activeGalaxyId,
                activePhotoId |-> NullPhoto]
    /\ last.pre.level = "cluster" =>
         (level = "universe" /\ activeGalaxyId = Null)

\* Escape has closed a photo.
C12_Witness ==
  /\ last.op = "Escape" /\ last.pre.level = "photo" /\ level = "cluster"
  /\ last.pre.activePhotoId # NullPhoto

\* C13: Escape at level 'universe' changes nothing, and the Back button is
\* never pressed there (it is not rendered).
C13_BackAtUniverse ==
  /\ (last.op = "Escape" /\ last.pre.level = "universe") => Nav = last.pre
  /\ last.op = "backButton" => last.pre.level # "universe"

\* Escape was pressed in the universe after a visit to a galaxy.
C13_Witness ==
  /\ last.op = "Escape" /\ last.pre.level = "universe" /\ fetched
  /\ galaxyLoading

\* back() as the page offers it: the Escape key, or the Back button where rendered
BackByButton(nav) == IF BackButtonRendered(nav.level) THEN BackButtonNav(nav) ELSE nav

\* C14: the page starts at {universe, null, null}, and from every reachable
\* state two back() calls in a row (by key or by button) end at level 'universe'.
C14_UniverseReachable ==
  /\ last.op = "init" =>
       Nav = [level |-> "universe", activeGalaxyId |-> Null,
              activePhotoId |-> NullPhoto]
  /\ EscapeNav(EscapeNav(Nav)).level = "universe"
  /\ BackByButton(BackByButton(Nav)).level = "universe"

\* A photo is open: one back() is not enough, two are.
C14_Witness ==
  /\ level = "photo"
  /\ EscapeNav(Nav).level = "cluster"
  /\ EscapeNav(EscapeNav(Nav)) =
       [level |-> "universe", activeGalaxyId |-> Null, activePhotoId |-> NullPhoto]

\* C15: a card click changes nothing unless the level is 'cluster' (and no
\* card can be clicked in the universe); the arrow keys change nothing unless
\* the level is 'photo'.
C15_InvalidTransitions ==
  /\ (last.op = "photoClick" /\ last.pre.level # "cluster") => Nav = last.pre
  /\ last.op = "photoClick" => last.pre.level # "universe"
  /\ (last.op \in {"ArrowRight", "ArrowLeft"} /\ last.pre.level # "photo") =>
       Nav = last.pre

\* ArrowRight was pressed at level 'cluster' in a galaxy that has photos.
C15_Witness ==
  /\ last.op = "ArrowRight" /\ last.pre.level = "cluster"
  /\ Len(ActivePhotos(galaxies, activeGalaxyId)) > 0

HoverOps == {"pointerOver", "pointerOut"}
TransitionOps == {"commit", "Escape", "ArrowRight", "ArrowLeft", "backButton",
                  "prevButton", "nextButton", "photoClick"}

\* C16: a pointer hover enter or exit, the completion of the photo-list fetch
\* and a texture load or failure leave level, activeGalaxyId and activePhotoId
\* as they were; only the transition operations change them.
C16_OnlyTransitionsChangeNav ==
  /\ last.op \in HoverOps \cup {"fetch", "textureLoaded", "textureFailed"} =>
       Nav = last.pre
  /\ Nav # last.pre => last.op \in TransitionOps

\* The pointer has come onto a card at level 'cluster' and the page is still there.
C16_Witness ==
  /\ last.op = "pointerOver" /\ last.i # NoIndex /\ hoveredIndex = last.i
  /\ last.pre.level = "cluster" /\ Nav = last.pre

\* the galaxies and the cards drawn as hovered
HoveredGalaxies == IF GalaxiesRendered(level) THEN hovered ELSE {}
HoveredCards == {i \in CardIndexes : ClusterMounted(level, activeGalaxyId)
                                      /\ IsHovered(hoveredIndex, i, level)}

C17_Exclusive ==
  /\ Cardinality(HoveredGalaxies) <= 1
  /\ Cardinality(HoveredCards) <= 1

\* C17 as stated: at most one galaxy and at most one card is hovered, and the
\* hover-enter handler of any target alone, with no hover-exit delivered to
\* the target hovered before, leaves only the new target hovered.
C17_Original ==
  /\ C17_Exclusive
  /\ \A g \in GalaxyIds :
       GalaxiesRendered(level) => GalaxyPointerOver(hovered, g) = {g}
  /\ \A i \in CardIndexes :
       level = "cluster" => CardPointerOver(hoveredIndex, i, level) = i

\* C17, amended: at most one galaxy and at most one card is hovered. A card's
\* hover-enter replaces the one hoveredIndex whether or not the card hovered
\* before got its hover-exit; a galaxy's hover-enter sets only its own flag,
\* and the galaxy hovered before is cleared by the hover-exit that the event
\* layer delivers to it first (or by its unmount).
C17_HoverExclusive ==
  /\ C17_Exclusive
  /\ \A i \in CardIndexes :
       level = "cluster" => CardPointerOver(hoveredIndex, i, level) = i
  /\ \A g \in GalaxyIds : GalaxyPointerOver(hovered, g) = hovered \cup {g}
  /\ (last.op = "pointerOver" /\ last.g # Null) => hovered = {last.g}
  /\ (last.op = "pointerOver" /\ last.i # NoIndex /\ last.pre.level = "cluster") =>
       hoveredIndex = last.i

\* The pointer went from one hovered galaxy straight to another.
C17_Witness ==
  /\ last.op = "pointerOver" /\ last.g # Null
  /\ last.preHover.hovered # {} /\ last.preHover.hovered # {last.g}
  /\ hovered = {last.g}

\* A card's hover-enter has replaced a hoveredIndex left behind by a hover-exit
\* that came at level 'photo' (reachable, so the card part is not vacuous).
StaleIndexReplaced ==
  /\ last.op = "pointerOver" /\ last.i # NoIndex /\ level = "cluster"
  /\ last.preHover.hoveredIndex \notin {NoIndex, last.i}
  /\ last.preHover.pointerOn = NoTarget
  /\ hoveredIndex = last.i

\* ----------------------------------------------------------- route claims

\* the characters the claim lets through: letters, digits, "_" and "-"
KeyChars ==
  {"a", "b", "c", "d", "e", "f", "g", "h", "i", "j", "k", "l", "m", "n", "o", "p",
   "q", "r", "s", "t", "u", "v", "w", "x", "y", "z",
   "A", "B", "C", "D", "E", "F", "G", "H", "I", "J", "K", "L", "M", "N", "O", "P",
   "Q", "R", "S", "T", "U", "V", "W", "X", "Y", "Z",
   "0", "1", "2", "3", "4", "5", "6", "7", "8", "9", "_", "-"}
KeptPositions(f) == {p \in 1..Len(f) : f[p] \in KeyChars}

\* C18: the key the route uses is the requested folder with every character
\* outside [A-Za-z0-9_-] removed and the others kept in their order, so the
\* directory it resolves is <cwd>/public/memories itself or its child named
\* by the key, never a place outside public/memories.
C18_SanitisedKey ==
  (rpc = "done" /\ env.params = "resolved") =>
    /\ Len(safe) = Cardinality(KeptPositions(folder))
    /\ \A p \in KeptPositions(folder) :
         safe[Cardinality({q \in KeptPositions(folder) : q <= p})] = folder[p]
    /\ dir.up = 0
    /\ dir.down = IF safe = <<>> THEN <<>> ELSE <<safe>>

\* A request for "../" has been served from public/memories itself.
C18_Witness ==
  /\ rpc = "done" /\ env.params = "resolved"
  /\ folder = <<".", ".", "/">> /\ safe = <<>> /\ dir = MemoriesDir

\* lower case of the capital letters that occur in FileNames
LowerCased(c) ==
  CASE c = "B" -> "b" [] c = "D" -> "d" [] c = "G" -> "g" [] c = "J" -> "j"
    [] c = "N" -> "n" [] c = "P" -> "p" [] c = "S" -> "s" [] OTHER -> c

\* what follows the last dot of f, lower-cased, is one of the ten extensions
EndsInImageExt(f) ==
  \E p \in 1..Len(f) :
    /\ f[p] = "."
    /\ \A q \in (p + 1)..Len(f) : f[q] # "."
    /\ [k \in 1..(Len(f) - p) |-> LowerCased(f[p + k])] \in IMAGE_EXTS_ALTERNATIVES

ExampleDir ==
  {<<"b", ".", "p", "n", "g">>, <<"a", ".", "J", "P", "G">>,
   <<".", "D", "S", "_", "S", "t", "o", "r", "e">>, <<"c", ".", "t", "x", "t">>}
ExampleBody == << <<"a", ".", "J", "P", "G">>, <<"b", ".", "p", "n", "g">> >>

\* C19: for a directory that was read, the body is exactly the names of that
\* directory that end in a dot and one of jpg, jpeg, png, gif, webp, heic,
\* heif, avif, tiff, tif in any letter case, each once, in ascending
\* lexicographic order; {b.png, a.JPG, .DS_Store, c.txt} gives [a.JPG, b.png].
C19_ImageListing ==
  (rpc = "done" /\ env.read = "ok") =>
    LET body == response.body
        images == {f \in env.names : EndsInImageExt(f)}
    IN /\ {body[k] : k \in 1..Len(body)} = images
       /\ Len(body) = Cardinality(images)
       /\ \A i, j \in 1..Len(body) : i < j => LexLess(body[i], body[j])
       /\ env.names = ExampleDir => body = ExampleBody

\* The directory of the example has been listed.
C19_Witness ==
  /\ rpc = "done" /\ env.read = "ok" /\ env.names = ExampleDir
  /\ response.body = ExampleBody

\* C20: every request is answered with status 200, and the body is the empty
\* array when params fails, the directory is missing or reading it throws.
C20_NeverAnError ==
  rpc = "done" =>
    /\ response.status = 200
    /\ (env.params = "rejected" \/ ~env.exists \/ env.read = "throws") =>
         response.body = <<>>

\* readdirSync has thrown on a directory that exists.
C20_Witness ==
  /\ rpc = "done" /\ env.exists /\ env.read = "throws"
  /\ response = [status |-> 200, body |-> <<>>]

\* ------------------------------------------------------- fetch effect claims

\* the first eight entries of a listing as photos of galaxy g
FirstEight(g, files) ==
  [k \in 1..(IF Len(files) < 8 THEN Len(files) ELSE 8) |->
     [id |-> <<g, k - 1>>, url |-> <<g, files[k]>>]]

\* C21: a fetched listing of n filenames becomes exactly the first min(n, 8)
\* filenames in listing order, the photo at position i with id <<g, i>>; every
\* galaxy has at most 8 photos, with pairwise distinct ids, in every state.
C21_FirstEightPhotos ==
  \A g \in GalaxyIds :
    /\ Len(galaxies[g]) <= 8
    /\ \A i, j \in 1..Len(galaxies[g]) :
         i # j => galaxies[g][i].id # galaxies[g][j].id
    /\ (fetches[g].state = "fulfilled" /\ fetches[g].ok) =>
         fetches[g].photos = FirstEight(g, fetches[g].files)
    /\ (fetched /\ fetches[g].ok) => galaxies[g] = FirstEight(g, fetches[g].files)

\* A listing of nine filenames has been fetched and eight photos were made.
C21_Witness ==
  \E g \in GalaxyIds :
    fetched /\ fetches[g].ok /\ Len(fetches[g].files) = 9 /\ Len(galaxies[g]) = 8

\* C22 as stated: as soon as the fetch of a galaxy has resolved, that
\* galaxy's photos are in the registry, whatever the other fetches do.
C22_Original ==
  \A g \in GalaxyIds :
    fetches[g].state = "fulfilled" => galaxies[g] = fetches[g].photos

\* C22, amended: the fetches resolve in any order, but the registry is
\* populated in one step once all of them have resolved: until then every
\* galaxy has no photos, from then on every galaxy has the photos of its fetch.
C22_PopulatedTogether ==
  /\ ~fetched => \A g \in GalaxyIds : galaxies[g] = <<>>
  /\ fetched => \A g \in GalaxyIds :
                  fetches[g].state = "fulfilled" /\ galaxies[g] = fetches[g].photos

\* One fetch has brought photos while another is unanswered: the registry
\* is still empty.
C22_Witness ==
  \E g, h \in GalaxyIds :
    /\ fetches[g].state = "fulfilled" /\ fetches[g].photos # <<>>
    /\ fetches[h].state = "pending"
    /\ galaxies[g] = <<>>

\* C23: a failed request leaves its galaxy with no photos, as an empty
\* listing does, and does not keep the galaxies whose requests succeeded
\* from their photos: once every request is answered the registry can be set.
C23_FailureIsEmpty ==
  /\ \A g \in GalaxyIds :
       (fetches[g].state # "pending" /\ ~fetches[g].ok) =>
         (fetches[g].state = "fulfilled" /\ fetches[g].photos = <<>>)
  /\ ((\A g \in GalaxyIds : fetches[g].state # "pending") /\ ~fetched) =>
       ENABLED PromiseAllThen
  /\ fetched => \A g \in GalaxyIds :
                  galaxies[g] = IF fetches[g].ok
                                THEN FirstEight(g, fetches[g].files) ELSE <<>>

\* One request failed, another brought photos, and the registry holds them.
C23_Witness ==
  \E g, h \in GalaxyIds :
    /\ fetched /\ fetches[g].state = "fulfilled" /\ ~fetches[g].ok
    /\ galaxies[g] = <<>>
    /\ fetches[h].ok /\ galaxies[h] # <<>>

\* ------------------------------------------------ single-level gallery claims

SelectedCards == {id \in CardIds : IsSelected(selectedId, id)}

\* C30: at most one card is selected; a click selects the clicked card only
\* when none is selected, a click on the selected card or Escape deselects,
\* and a click on another card while one is selected changes nothing.
C30_SingleSelection ==
  /\ Cardinality(SelectedCards) <= 1
  /\ selectedId \in CardIds \cup {NoCard}
  /\ (glast.op = "click" /\ glast.pre = NoCard) => selectedId = glast.id
  /\ (glast.op = "click" /\ glast.pre = glast.id) => selectedId = NoCard
  /\ (glast.op = "click" /\ glast.pre \notin {NoCard, glast.id}) =>
       selectedId = glast.pre
  /\ glast.op = "Escape" => selectedId = NoCard
  /\ selectedId # glast.pre => glast.op \in {"click", "Escape"}

\* Another card was clicked while one was selected.
C30_Witness ==
  /\ glast.op = "click" /\ glast.pre \in CardIds /\ glast.id # glast.pre
  /\ selectedId = glast.pre

\* ---------------------------------------------------------- camera claims

\* the squared distance between two points, in squared half units
Dist2(p, q) ==
  (p[1] - q[1]) * (p[1] - q[1]) + (p[2] - q[2]) * (p[2] - q[2])
    + (p[3] - q[3]) * (p[3] - q[3])

\* the active galaxy's position (x, y, z)
ActiveX == GALAXY_POSITION[activeGalaxyId][1]
ActiveY == GALAXY_POSITION[activeGalaxyId][2]
ActiveZ == GALAXY_POSITION[activeGalaxyId][3]

\* C26: the camera's target pose is determined by the level and the active
\* galaxy's position (x, y, z): universe (0,5,45) -> (0,0,0); cluster
\* (x,y,z+20) -> (x,y,z); photo (x,y,z+12) -> (x-0.5,y,z+6), nearer to its
\* look-at point than the cluster pose is. Coordinates are in half units.
C26_CameraPose ==
  /\ level = "universe" =>
       camera.from = <<0, 10, 90>> /\ camera.at = <<0, 0, 0>>
  /\ level = "cluster" =>
       /\ camera.from = <<2 * ActiveX, 2 * ActiveY, 2 * ActiveZ + 40>>
       /\ camera.at = <<2 * ActiveX, 2 * ActiveY, 2 * ActiveZ>>
  /\ level = "photo" =>
       /\ camera.from = <<2 * ActiveX, 2 * ActiveY, 2 * ActiveZ + 24>>
       /\ camera.at = <<2 * ActiveX - 1, 2 * ActiveY, 2 * ActiveZ + 12>>
       /\ Dist2(camera.from, camera.at)
            < Dist2(<<2 * ActiveX, 2 * ActiveY, 2 * ActiveZ + 40>>,
                    <<2 * ActiveX, 2 * ActiveY, 2 * ActiveZ>>)

\* A photo is open and the camera looks past it to the left.
C26_Witness ==
  /\ level = "photo" /\ last.op = "photoClick"
  /\ camera.at[1] = 2 * ActiveX - 1

\* the zoom limits the claim gives for a level
ClaimedClamps(lvl) ==
  CASE lvl = "universe" -> <<15, 80>>
    [] lvl = "cluster" -> <<5, 35>>
    [] lvl = "photo" -> <<3, 22>>

\* C28: at every level the distance from the pose's look-from point to its
\* look-at point lies within the level's zoom limits (universe [15,80],
\* cluster [5,35], photo [3,22]), and minDistance < maxDistance.
C28_PoseWithinClamps ==
  /\ <<camera.minDistance, camera.maxDistance>> = ClaimedClamps(level)
  /\ camera.minDistance < camera.maxDistance
  /\ 4 * camera.minDistance * camera.minDistance <= Dist2(camera.from, camera.at)
  /\ Dist2(camera.from, camera.at) <= 4 * camera.maxDistance * camera.maxDistance

\* The photo pose, about 6.02 from its look-at point, between 3 and 22.
C28_Witness ==
  /\ level = "photo" /\ camera.minDistance = 3 /\ camera.maxDistance = 22
  /\ Dist2(camera.from, camera.at) = 145

\* ------------------------------------------------------ stale hover claim

\* C29: at level 'cluster' the hovered photo index is non-null only while
\* the pointer is over that card; in particular after a photo was opened and
\* closed again with no new pointer-enter no photo is hovered.
C29_HoverOnlyUnderPointer ==
  (level = "cluster" /\ hoveredIndex # NoIndex) =>
    pointerOn = CardTarget(hoveredIndex)

\* ------------------------------------------------------------ audio claim

\* C25: whenever no stop timeout is pending, the drone is running if the UI
\* is unmuted and stopped if it is muted, after any run of toggles.
C25_MuteControlsDrone ==
  ambient.timers = 0 =>
    /\ ~muted => ambient.nodes = "playing"
    /\ muted => ambient.nodes = "null"

\* ------------------------------------------------------ overlay liveness

\* C24: whenever the loading overlay is up, it is eventually dismissed.
C24_OverlayDismissed == galaxyLoading ~> ~galaxyLoading

\* ------------------------------------------------------ warp timer claim

\* C27: a pending warp is never cancelled: the queue of pending warp timers
\* changes only when an accepted galaxy click appends its galaxy or when the
\* oldest timer fires, and that step commits (activeGalaxyId = the clicked
\* galaxy, level = 'cluster') and takes exactly that one timer off; while a
\* timer is pending its firing stays possible whatever else happens.
C27_WarpNeverCancelled ==
  [][/\ timers # <<>> => ENABLED WarpTimerFires
     /\ timers' # timers =>
          \/ /\ last'.op = "galaxyClick" /\ last'.hit
             /\ timers' = Append(timers, last'.g)
          \/ /\ last'.op = "commit"
             /\ timers # <<>>
             /\ timers' = Tail(timers)
             /\ last'.g = Head(timers)
             /\ activeGalaxyId' = Head(timers)
             /\ level' = "cluster"
     /\ last'.op = "commit" => timers # <<>> /\ timers' = Tail(timers)]_allVars

\* C27, the eventual commit: under LiveSpec a pending warp leads to its commit.
C27_WarpCommits ==
  \A g \in GalaxyIds :
    (timers # <<>> /\ Head(timers) = g)
      ~> (last.op = "commit" /\ last.g = g /\ activeGalaxyId = g
            /\ level = "cluster")

\* A warp committed although a key was pressed while its timer was pending.
C27_Witness ==
  /\ last.op = "commit" /\ clicked = <<>>
  /\ activeGalaxyId = last.g /\ level = "cluster" /\ timers = <<>>

====
